---------------------------- MODULE Spec2Model ----------------------------
(***************************************************************************)
(* Model of the go-quantcup price-time matching engine (Engine.Reset,      *)
(* Engine.Limit, Engine.Cancel, Engine.executeTrade, ppInsertOrder,        *)
(* Engine.Persist) and of the persistence path (PersistDeals).             *)
(*                                                                         *)
(* Pointers into the arena e.bookEntries are modelled by the index of the  *)
(* slot they point to; the Go nil pointer is Nil.  The arrays pricePoints  *)
(* and bookEntries are functions over their index ranges, the deals array  *)
(* is the sequence of the slots written so far (slot i is deals[i+1]).     *)
(* A Go run-time panic (index out of range) stops the process: it is       *)
(* recorded in the field panicked, with the array that was indexed out of  *)
(* range in the field fault, and no operation runs afterwards.             *)
(***************************************************************************)
EXTENDS Integers, Sequences, FiniteSets, TLC

(***************************************************************************)
(* Bounds of the model.  maxPrice stands for the program's maxPrice        *)
(* (65535, a uint16 price), scaled down so that every price level can be   *)
(* enumerated; MaxSize bounds the order sizes drawn; MaxFeed bounds the    *)
(* number of rows of the input feed handed to the engine, over all rounds, *)
(* each Reset adding one row to that budget; MaxResets bounds the number   *)
(* of Reset calls; batchPersistSize is the persister's chunk length        *)
(* (20000) scaled down; maxNumOrders is the length of the arena (1010000)  *)
(* scaled down, and with it maxNumDeals, the length of the deals array;    *)
(* MaxLogFeed bounds the rows of a feed whose orders all name one price;   *)
(* batchSize is the number of rows main hands to feed at a time (10)       *)
(* scaled down, and MaxFetch bounds the rows FetchOrders returns to main.  *)
(***************************************************************************)
maxPrice == 3
MaxSize == 2
MaxFeed == 3
MaxResets == 1
batchPersistSize == 2
maxNumOrders == 6
MaxLogFeed == 5
batchSize == 2
MaxFetch == 5

(* Program constants. *)
minPrice == 1
maxNumDeals == maxNumOrders \div 2
Nil == -1

Bid == 0
Ask == 1

traderChoices == {"ID0"}
Symbols == {"SYM"}

VARIABLES
    e,          \* the Engine (var e Engine in main)
    fresh,      \* a never-used Engine fed the same calls since the last Reset
    OrdersFeed, \* the rows of the input feed handed to the engine so far
    lastCall,   \* the last engine call made by the driver and what it returned
    resets,     \* number of Reset calls made
    fedBefore,  \* number of rows handed to the engine in the earlier rounds
    dbDeals,    \* the rows of the deals relation
    blocked,    \* orders.blocked_size by order id (Nil is SQL NULL)
    pc,         \* where main is, and where each goroutine of Persist is
    mainLoop    \* the loop of main over the fetched orders: where it is, the
                \* slice FetchOrders returned, main's i and feed's i

vars == <<e, fresh, OrdersFeed, lastCall, resets, fedBefore, dbDeals, blocked, pc,
          mainLoop>>

----------------------------------------------------------------------------
(* Data types *)

Prices == minPrice .. maxPrice
Sizes == 1 .. MaxSize
Slots == 0 .. maxNumOrders - 1

\* the ids of the rows of the orders relation
OrderIDs ==
    1 .. (IF MaxFeed + MaxResets > MaxLogFeed THEN MaxFeed + MaxResets ELSE MaxLogFeed)

\* type orderBookEntry, zero value
ZeroEntry == [size |-> 0, next |-> Nil, trader |-> "", id |-> 0]

\* type pricePoint, zero value
ZeroPricePoint == [listHead |-> Nil, listTail |-> Nil]

\* var e Engine: the zero value of the struct
ZeroEngine ==
    [pricePoints |-> [p \in 0 .. maxPrice |-> ZeroPricePoint],
     curOrderID  |-> 0,
     askMin      |-> 0,
     bidMax      |-> 0,
     bookEntries |-> [s \in Slots |-> ZeroEntry],
     deals       |-> << >>,
     curDealID   |-> 0,
     panicked    |-> FALSE,
     fault       |-> ""]

\* e.deals[i] = d
WriteDeal(deals, i, d) ==
    IF i < Len(deals) THEN [deals EXCEPT ![i + 1] = d] ELSE Append(deals, d)

\* e.deals[0:e.curDealID]
DealLog(E) == SubSeq(E.deals, 1, E.curDealID)

----------------------------------------------------------------------------
(* Engine.Reset: the range loops assign to copies of the array elements,   *)
(* so only the assignment of a new pricePoints array and of the four       *)
(* scalars changes the engine.                                             *)
Reset(E) ==
    [E EXCEPT !.pricePoints = [p \in 0 .. maxPrice |-> ZeroPricePoint],
              !.curOrderID = 0,
              !.curDealID = 0,
              !.askMin = maxPrice + 1,
              !.bidMax = minPrice - 1]

(* Faulty variant of executeTrade: the guard that skips cancelled (size 0) *)
(* nodes is missing.  CancelledEmitsNoDeals fails on it.                   *)
executeTrade_NoSizeGuard(E, bidOrderID, askOrderID, symbol, bidTrader, askTrader, price, size) ==
    IF E.curDealID >= maxNumDeals
         THEN [E EXCEPT !.panicked = TRUE, !.fault = "deals"]
    ELSE [E EXCEPT !.deals = WriteDeal(E.deals, E.curDealID,
                                [bidOrderID |-> bidOrderID,
                                 askOrderID |-> askOrderID,
                                 askTrader  |-> askTrader,
                                 bidTrader  |-> bidTrader,
                                 symbol     |-> symbol,
                                 price      |-> price,
                                 size       |-> size]),
                   !.curDealID = @ + 1]

(* Faulty variant of executeTrade: the new deal is written in front of the *)
(* log instead of at the cursor.  DealLogAppendOnly fails on it.           *)
executeTrade_Prepend(E, bidOrderID, askOrderID, symbol, bidTrader, askTrader, price, size) ==
    IF size = 0 THEN E
    ELSE IF E.curDealID >= maxNumDeals
         THEN [E EXCEPT !.panicked = TRUE, !.fault = "deals"]
    ELSE [E EXCEPT !.deals = <<[bidOrderID |-> bidOrderID,
                                askOrderID |-> askOrderID,
                                askTrader  |-> askTrader,
                                bidTrader  |-> bidTrader,
                                symbol     |-> symbol,
                                price      |-> price,
                                size       |-> size]>> \o E.deals,
                   !.curDealID = @ + 1]

(* Engine.executeTrade *)
executeTrade(E, bidOrderID, askOrderID, symbol, bidTrader, askTrader, price, size) ==
    IF size = 0 THEN E
    ELSE IF E.curDealID >= maxNumDeals
         THEN [E EXCEPT !.panicked = TRUE, !.fault = "deals"]
    ELSE [E EXCEPT !.deals = WriteDeal(E.deals, E.curDealID,
                                [bidOrderID |-> bidOrderID,
                                 askOrderID |-> askOrderID,
                                 askTrader  |-> askTrader,
                                 bidTrader  |-> bidTrader,
                                 symbol     |-> symbol,
                                 price      |-> price,
                                 size       |-> size]),
                   !.curDealID = @ + 1]

(* Faulty variant of ppInsertOrder: the entry is linked in at the head of *)
(* the list.  PriceTimePriority fails on it.                               *)
ppInsertOrder_AtHead(E, price, entry) ==
    LET pp == E.pricePoints[price]
        E1 == [E EXCEPT !.bookEntries[entry].next = pp.listHead,
                        !.pricePoints[price].listHead = entry]
    IN IF pp.listHead = Nil
       THEN [E1 EXCEPT !.pricePoints[price].listTail = entry]
       ELSE E1

(* Faulty variant of ppInsertOrder: the tail is set only when the list is  *)
(* empty.  ListIntegrity fails on it.                                      *)
ppInsertOrder_KeepTail(E, price, entry) ==
    LET pp == E.pricePoints[price]
    IN IF pp.listHead # Nil
       THEN [E EXCEPT !.bookEntries[pp.listTail].next = entry]
       ELSE [E EXCEPT !.pricePoints[price].listHead = entry,
                      !.pricePoints[price].listTail = entry]

(* ppInsertOrder(&e.pricePoints[price], &e.bookEntries[entry]) *)
ppInsertOrder(E, price, entry) ==
    LET pp == E.pricePoints[price]
        E1 == IF pp.listHead # Nil
              THEN [E EXCEPT !.bookEntries[pp.listTail].next = entry]
              ELSE [E EXCEPT !.pricePoints[price].listHead = entry]
    IN [E1 EXCEPT !.pricePoints[price].listTail = entry]

(* Faulty variant of Cancel: the size is decremented instead of zeroed.    *)
(* CancelIdempotent fails on it.                                           *)
Cancel_Decrement(E, orderID) ==
    [E EXCEPT !.bookEntries[orderID].size = IF @ > 0 THEN @ - 1 ELSE 0]

(* Faulty variant of Cancel: the node's link is cleared with its size.      *)
(* CancelSingleWrite fails on it.                                          *)
Cancel_Unlink(E, orderID) ==
    [E EXCEPT !.bookEntries[orderID].size = 0,
              !.bookEntries[orderID].next = Nil]

(* Engine.Cancel *)
Cancel(E, orderID) ==
    [E EXCEPT !.bookEntries[orderID].size = 0]

----------------------------------------------------------------------------
(* Engine.Limit.  The scan returns the engine, the size still unfilled,   *)
(* and whether Limit has returned from inside the scan (filled) with the   *)
(* value ret.                                                              *)

\* Faulty variant of RestBid: bidMax is not raised to the price of a Bid
\* that rests above it.  SidesSeparated fails on it.
RestBid_NoRaise(E, order, orderSize) ==
    LET E1 == [E EXCEPT !.curOrderID = @ + 1] IN
    IF E1.curOrderID >= maxNumOrders
    THEN [e |-> [E1 EXCEPT !.panicked = TRUE, !.fault = "bookEntries"], ret |-> Nil]
    ELSE LET entry == E1.curOrderID
             E2 == [E1 EXCEPT !.bookEntries[entry].size = orderSize,
                              !.bookEntries[entry].trader = order.trader,
                              !.bookEntries[entry].id = order.id]
             E3 == ppInsertOrder(E2, order.price, entry)
         IN [e |-> E3, ret |-> E3.curOrderID]

\* lines 190-201: the residual of a Bid rests at its limit price
RestBid(E, order, orderSize) ==
    LET E1 == [E EXCEPT !.curOrderID = @ + 1] IN
    IF E1.curOrderID >= maxNumOrders
    THEN [e |-> [E1 EXCEPT !.panicked = TRUE, !.fault = "bookEntries"], ret |-> Nil]
    ELSE LET entry == E1.curOrderID
             E2 == [E1 EXCEPT !.bookEntries[entry].size = orderSize,
                              !.bookEntries[entry].trader = order.trader,
                              !.bookEntries[entry].id = order.id]
             E3 == ppInsertOrder(E2, order.price, entry)
             E4 == IF E3.bidMax < order.price
                   THEN [E3 EXCEPT !.bidMax = order.price] ELSE E3
         IN [e |-> E4, ret |-> E4.curOrderID]

\* Faulty variant of RestAsk: askMin is set to the price of every Ask that
\* rests, also when the Ask rests above it.  ScanPointersMonotone fails on it.
RestAsk_AlwaysSet(E, order, orderSize) ==
    LET E1 == [E EXCEPT !.curOrderID = @ + 1] IN
    IF E1.curOrderID >= maxNumOrders
    THEN [e |-> [E1 EXCEPT !.panicked = TRUE, !.fault = "bookEntries"], ret |-> Nil]
    ELSE LET entry == E1.curOrderID
             E2 == [E1 EXCEPT !.bookEntries[entry].size = orderSize,
                              !.bookEntries[entry].trader = order.trader,
                              !.bookEntries[entry].id = order.id]
             E3 == ppInsertOrder(E2, order.price, entry)
             E4 == [E3 EXCEPT !.askMin = order.price]
         IN [e |-> E4, ret |-> E4.curOrderID]

\* lines 243-254: the residual of an Ask rests at its limit price
RestAsk(E, order, orderSize) ==
    LET E1 == [E EXCEPT !.curOrderID = @ + 1] IN
    IF E1.curOrderID >= maxNumOrders
    THEN [e |-> [E1 EXCEPT !.panicked = TRUE, !.fault = "bookEntries"], ret |-> Nil]
    ELSE LET entry == E1.curOrderID
             E2 == [E1 EXCEPT !.bookEntries[entry].size = orderSize,
                              !.bookEntries[entry].trader = order.trader,
                              !.bookEntries[entry].id = order.id]
             E3 == ppInsertOrder(E2, order.price, entry)
             E4 == IF E3.askMin > order.price
                   THEN [E3 EXCEPT !.askMin = order.price] ELSE E3
         IN [e |-> E4, ret |-> E4.curOrderID]

\* Faulty variant of BidFill: the head of the list is not moved past a
\* resting ask consumed whole.  DealsBoundedByLimitCalls fails on it.
BidFill_KeepHead(E, order, orderSize, bookEntry) ==
    LET be == E.bookEntries[bookEntry]
        E1 == executeTrade(E, order.id, be.id, order.symbol, order.trader,
                           be.trader, order.price, orderSize)
    IN IF E1.panicked THEN [e |-> E1, orderSize |-> orderSize, filled |-> FALSE]
       ELSE LET E2 == IF be.size > orderSize
                      THEN [E1 EXCEPT !.bookEntries[bookEntry].size = @ - orderSize]
                      ELSE E1
            IN [e |-> [E2 EXCEPT !.pricePoints[E.askMin].listHead = bookEntry,
                                 !.curOrderID = @ + 1],
                orderSize |-> orderSize, filled |-> TRUE]

\* Faulty variant of BidFill: the fill is not subtracted from the resting
\* node, which stays at the head.  ConservationOfVolume fails on it.
BidFill_NoDecrement(E, order, orderSize, bookEntry) ==
    LET be == E.bookEntries[bookEntry]
        E1 == executeTrade(E, order.id, be.id, order.symbol, order.trader,
                           be.trader, order.price, orderSize)
    IN IF E1.panicked THEN [e |-> E1, orderSize |-> orderSize, filled |-> FALSE]
       ELSE LET nb == IF be.size > orderSize THEN bookEntry ELSE be.next
            IN [e |-> [E1 EXCEPT !.pricePoints[E.askMin].listHead = nb,
                                 !.curOrderID = @ + 1],
                orderSize |-> orderSize, filled |-> TRUE]

\* lines 164-174: the resting ask bookEntry fills the incoming Bid
BidFill(E, order, orderSize, bookEntry) ==
    LET be == E.bookEntries[bookEntry]
        E1 == executeTrade(E, order.id, be.id, order.symbol, order.trader,
                           be.trader, order.price, orderSize)
    IN IF E1.panicked THEN [e |-> E1, orderSize |-> orderSize, filled |-> FALSE]
       ELSE LET E2 == IF be.size > orderSize
                      THEN [E1 EXCEPT !.bookEntries[bookEntry].size = @ - orderSize]
                      ELSE E1
                nb == IF be.size > orderSize THEN bookEntry ELSE be.next
            IN [e |-> [E2 EXCEPT !.pricePoints[E.askMin].listHead = nb,
                                 !.curOrderID = @ + 1],
                orderSize |-> orderSize, filled |-> TRUE]

\* Faulty variant of AskFill: curOrderID is not incremented when the
\* incoming Ask is filled whole.  SequenceReturned fails on it.
AskFill_NoIncrement(E, order, orderSize, bookEntry) ==
    LET be == E.bookEntries[bookEntry]
        E1 == executeTrade(E, be.id, order.id, order.symbol, be.trader,
                           order.trader, order.price, orderSize)
    IN IF E1.panicked THEN [e |-> E1, orderSize |-> orderSize, filled |-> FALSE]
       ELSE LET E2 == IF be.size > orderSize
                      THEN [E1 EXCEPT !.bookEntries[bookEntry].size = @ - orderSize]
                      ELSE E1
                nb == IF be.size > orderSize THEN bookEntry ELSE be.next
            IN [e |-> [E2 EXCEPT !.pricePoints[E.bidMax].listHead = nb],
                orderSize |-> orderSize, filled |-> TRUE]

\* Faulty variant of AskFill: the head of the list is not moved past a
\* resting bid consumed whole.  ExactFillLeavesPointer fails on it.
AskFill_KeepHead(E, order, orderSize, bookEntry) ==
    LET be == E.bookEntries[bookEntry]
        E1 == executeTrade(E, be.id, order.id, order.symbol, be.trader,
                           order.trader, order.price, orderSize)
    IN IF E1.panicked THEN [e |-> E1, orderSize |-> orderSize, filled |-> FALSE]
       ELSE LET E2 == IF be.size > orderSize
                      THEN [E1 EXCEPT !.bookEntries[bookEntry].size = @ - orderSize]
                      ELSE E1
            IN [e |-> [E2 EXCEPT !.pricePoints[E.bidMax].listHead = bookEntry,
                                 !.curOrderID = @ + 1],
                orderSize |-> orderSize, filled |-> TRUE]

\* lines 217-227: the resting bid bookEntry fills the incoming Ask
AskFill(E, order, orderSize, bookEntry) ==
    LET be == E.bookEntries[bookEntry]
        E1 == executeTrade(E, be.id, order.id, order.symbol, be.trader,
                           order.trader, order.price, orderSize)
    IN IF E1.panicked THEN [e |-> E1, orderSize |-> orderSize, filled |-> FALSE]
       ELSE LET E2 == IF be.size > orderSize
                      THEN [E1 EXCEPT !.bookEntries[bookEntry].size = @ - orderSize]
                      ELSE E1
                nb == IF be.size > orderSize THEN bookEntry ELSE be.next
            IN [e |-> [E2 EXCEPT !.pricePoints[E.bidMax].listHead = nb,
                                 !.curOrderID = @ + 1],
                orderSize |-> orderSize, filled |-> TRUE]

\* Faulty variant of BidScan: a resting ask of exactly the size still wanted
\* is consumed like a smaller one, and the scan goes on with size 0 left.
\* FilledLeavesNoTrace fails on it.
RECURSIVE BidScan_ConsumeEqual(_, _, _, _)
BidScan_ConsumeEqual(E, order, orderSize, bookEntry) ==
    IF bookEntry # Nil
    THEN LET be == E.bookEntries[bookEntry] IN
         IF be.size <= orderSize
         THEN LET E1 == executeTrade(E, order.id, be.id, order.symbol, order.trader,
                                     be.trader, order.price, be.size)
              IN IF E1.panicked
                 THEN [e |-> E1, orderSize |-> orderSize, filled |-> FALSE]
                 ELSE BidScan_ConsumeEqual(E1, order, orderSize - be.size, be.next)
         ELSE BidFill(E, order, orderSize, bookEntry)
    ELSE LET E1 == [E EXCEPT !.pricePoints[E.askMin].listHead = Nil,
                             !.askMin = @ + 1]
         IN IF E1.askMin > maxPrice
            THEN [e |-> [E1 EXCEPT !.panicked = TRUE, !.fault = "pricePoints"],
                  orderSize |-> orderSize, filled |-> FALSE]
            ELSE IF order.price < E1.askMin
            THEN [e |-> E1, orderSize |-> orderSize, filled |-> FALSE]
            ELSE BidScan_ConsumeEqual(E1, order, orderSize, E1.pricePoints[E1.askMin].listHead)

\* Faulty variant of BidScan: the head of an exhausted price point is not
\* cleared before askMin moves on.  ScanPointerStopsAtLimit fails on it.
RECURSIVE BidScan_NoClear(_, _, _, _)
BidScan_NoClear(E, order, orderSize, bookEntry) ==
    IF bookEntry # Nil
    THEN LET be == E.bookEntries[bookEntry] IN
         IF be.size < orderSize
         THEN LET E1 == executeTrade(E, order.id, be.id, order.symbol, order.trader,
                                     be.trader, order.price, be.size)
              IN IF E1.panicked
                 THEN [e |-> E1, orderSize |-> orderSize, filled |-> FALSE]
                 ELSE BidScan_NoClear(E1, order, orderSize - be.size, be.next)
         ELSE BidFill(E, order, orderSize, bookEntry)
    ELSE LET E1 == [E EXCEPT !.askMin = @ + 1]
         IN IF E1.askMin > maxPrice
            THEN [e |-> [E1 EXCEPT !.panicked = TRUE, !.fault = "pricePoints"],
                  orderSize |-> orderSize, filled |-> FALSE]
            ELSE IF order.price < E1.askMin
            THEN [e |-> E1, orderSize |-> orderSize, filled |-> FALSE]
            ELSE BidScan_NoClear(E1, order, orderSize, E1.pricePoints[E1.askMin].listHead)

\* lines 154-187: the loops over the price levels from askMin upwards and
\* over the list of each level; ppEntry is &e.pricePoints[e.askMin]
RECURSIVE BidScan(_, _, _, _)
BidScan(E, order, orderSize, bookEntry) ==
    IF bookEntry # Nil
    THEN LET be == E.bookEntries[bookEntry] IN
         IF be.size < orderSize
         THEN LET E1 == executeTrade(E, order.id, be.id, order.symbol, order.trader,
                                     be.trader, order.price, be.size)
              IN IF E1.panicked
                 THEN [e |-> E1, orderSize |-> orderSize, filled |-> FALSE]
                 ELSE BidScan(E1, order, orderSize - be.size, be.next)
         ELSE BidFill(E, order, orderSize, bookEntry)
    ELSE LET E1 == [E EXCEPT !.pricePoints[E.askMin].listHead = Nil,
                             !.askMin = @ + 1]
         IN IF E1.askMin > maxPrice    \* &e.pricePoints[e.askMin]: index out of range
            THEN [e |-> [E1 EXCEPT !.panicked = TRUE, !.fault = "pricePoints"],
                  orderSize |-> orderSize, filled |-> FALSE]
            ELSE IF order.price < E1.askMin
            THEN [e |-> E1, orderSize |-> orderSize, filled |-> FALSE]
            ELSE BidScan(E1, order, orderSize, E1.pricePoints[E1.askMin].listHead)

\* lines 207-240: the loops over the price levels from bidMax downwards
RECURSIVE AskScan(_, _, _, _)
AskScan(E, order, orderSize, bookEntry) ==
    IF bookEntry # Nil
    THEN LET be == E.bookEntries[bookEntry] IN
         IF be.size < orderSize
         THEN LET E1 == executeTrade(E, be.id, order.id, order.symbol, be.trader,
                                     order.trader, order.price, be.size)
              IN IF E1.panicked
                 THEN [e |-> E1, orderSize |-> orderSize, filled |-> FALSE]
                 ELSE AskScan(E1, order, orderSize - be.size, be.next)
         ELSE AskFill(E, order, orderSize, bookEntry)
    ELSE LET E1 == [E EXCEPT !.pricePoints[E.bidMax].listHead = Nil,
                             !.bidMax = @ - 1]
         IN IF order.price > E1.bidMax
            THEN [e |-> E1, orderSize |-> orderSize, filled |-> FALSE]
            ELSE AskScan(E1, order, orderSize, E1.pricePoints[E1.bidMax].listHead)

\* Faulty variant of Limit: the crossing tests are strict, so an order at
\* exactly the best opposite price rests unmatched.  NoCrossedBook fails on it.
Limit_StrictCross(E, order) ==
    IF order.side = Bid
    THEN IF order.price > E.askMin
         THEN LET s == BidScan(E, order, order.size, E.pricePoints[E.askMin].listHead)
              IN IF s.e.panicked THEN [e |-> s.e, ret |-> Nil]
                 ELSE IF s.filled THEN [e |-> s.e, ret |-> s.e.curOrderID]
                 ELSE RestBid(s.e, order, s.orderSize)
         ELSE RestBid(E, order, order.size)
    ELSE IF order.price < E.bidMax
         THEN LET s == AskScan(E, order, order.size, E.pricePoints[E.bidMax].listHead)
              IN IF s.e.panicked THEN [e |-> s.e, ret |-> Nil]
                 ELSE IF s.filled THEN [e |-> s.e, ret |-> s.e.curOrderID]
                 ELSE RestAsk(s.e, order, s.orderSize)
         ELSE RestAsk(E, order, order.size)

\* func (e *Engine) Limit(order Order) OrderID
Limit(E, order) ==
    IF order.side = Bid
    THEN IF order.price >= E.askMin
         THEN LET s == BidScan(E, order, order.size, E.pricePoints[E.askMin].listHead)
              IN IF s.e.panicked THEN [e |-> s.e, ret |-> Nil]
                 ELSE IF s.filled THEN [e |-> s.e, ret |-> s.e.curOrderID]
                 ELSE RestBid(s.e, order, s.orderSize)
         ELSE RestBid(E, order, order.size)
    ELSE IF order.price <= E.bidMax
         THEN LET s == AskScan(E, order, order.size, E.pricePoints[E.bidMax].listHead)
              IN IF s.e.panicked THEN [e |-> s.e, ret |-> Nil]
                 ELSE IF s.filled THEN [e |-> s.e, ret |-> s.e.curOrderID]
                 ELSE RestAsk(s.e, order, s.orderSize)
         ELSE RestAsk(E, order, order.size)

----------------------------------------------------------------------------
(* The driver: main resets the engine, then feed hands the rows of the     *)
(* orders relation to the engine one at a time, in ascending id order.     *)
(* Row i of the relation has the serial id i.  A row with price 0 is a     *)
(* cancellation whose size field names the engine sequence to cancel.      *)

Orders(id) ==
    [id : {id}, symbol : Symbols, trader : traderChoices,
     side : {Bid, Ask}, price : Prices, size : Sizes]

Cancels(id) ==
    [id : {id}, symbol : Symbols, trader : traderChoices,
     side : {Bid}, price : {0}, size : Slots]

NoCall == [op |-> "none", arg |-> Nil, ret |-> Nil, freshRet |-> Nil]

Init ==
    /\ e = Reset(ZeroEngine)
    /\ fresh = Reset(ZeroEngine)
    /\ OrdersFeed = << >>
    /\ lastCall = NoCall
    /\ resets = 0
    /\ fedBefore = 0
    /\ dbDeals = << >>
    /\ blocked = [id \in OrderIDs |-> Nil]
    /\ pc = [main |-> "feed", workers |-> << >>]
    /\ mainLoop = [at |-> "fetch", Orders |-> << >>, i |-> 0, k |-> 0]

Running == pc.main = "feed" /\ ~e.panicked

\* the feed still has a row
MoreRows == fedBefore + Len(OrdersFeed) < MaxFeed + resets

\* feed: e.Limit(order)
DoLimit ==
    /\ Running
    /\ MoreRows
    /\ \E order \in Orders(Len(OrdersFeed) + 1) :
          LET r == Limit(e, order)
              f == Limit(fresh, order)
          IN
          /\ e' = r.e
          /\ fresh' = f.e
          /\ OrdersFeed' = Append(OrdersFeed, order)
          /\ lastCall' = [op |-> "Limit", arg |-> order.id, ret |-> r.ret,
                          freshRet |-> f.ret]
    /\ UNCHANGED <<resets, fedBefore, dbDeals, blocked, pc, mainLoop>>

\* feed: e.Cancel(OrderID(order.size))
DoCancel ==
    /\ Running
    /\ MoreRows
    /\ \E order \in Cancels(Len(OrdersFeed) + 1) :
          /\ e' = Cancel(e, order.size)
          /\ fresh' = Cancel(fresh, order.size)
          /\ OrdersFeed' = Append(OrdersFeed, order)
          /\ lastCall' = [op |-> "Cancel", arg |-> order.size, ret |-> Nil,
                          freshRet |-> Nil]
    /\ UNCHANGED <<resets, fedBefore, dbDeals, blocked, pc, mainLoop>>

\* main: e.Reset(db, 100000) starts a round: the schema is dropped and
\* recreated (the serial ids start again at 1) and the orders are fetched anew
DoReset ==
    /\ Running
    /\ resets < MaxResets
    /\ e' = Reset(e)
    /\ fresh' = Reset(ZeroEngine)
    /\ OrdersFeed' = << >>
    /\ lastCall' = [op |-> "Reset", arg |-> Nil, ret |-> Nil, freshRet |-> Nil]
    /\ resets' = resets + 1
    /\ fedBefore' = fedBefore + Len(OrdersFeed)
    /\ UNCHANGED <<dbDeals, blocked, pc, mainLoop>>

\* One round of the driver: Limit and Cancel calls on the engine as reset
\* at the start of the program.
Next == DoLimit \/ DoCancel

Spec == Init /\ [][Next]_vars

\* Several rounds: Reset between the calls.
NextReset == DoLimit \/ DoCancel \/ DoReset

SpecReset == Init /\ [][NextReset]_vars

----------------------------------------------------------------------------
(* Engine.Persist and PersistDeals.  Persist starts one goroutine per      *)
(* chunk of batchPersistSize deals and waits for all of them.  Each        *)
(* goroutine copies its chunk into the deals relation (the rows are sent   *)
(* when the COPY statement is executed with no arguments), then runs the   *)
(* aggregating UPDATE of orders.blocked_size over its range of order ids.  *)
(* Worker k (from 1) handles e.deals[(k-1)*batchPersistSize : k*...].      *)

\* Persist, lines 284-290: the number of chunks and the bounds sb, se of each
NChunks(n) == (n + batchPersistSize - 1) \div batchPersistSize

ChunkBegin(k) == (k - 1) * batchPersistSize

\* Faulty variant of ChunkEnd: the end of the last chunk is not cut back to
\* the number of deals.  PersistPartitionsLog fails on it.
ChunkEnd_NoClamp(k, n) == ChunkBegin(k) + batchPersistSize

ChunkEnd(k, n) ==
    IF ChunkBegin(k) + batchPersistSize > n THEN n
    ELSE ChunkBegin(k) + batchPersistSize

\* e.deals[sb:se]
DealSlice(E, sb, se) == SubSeq(E.deals, sb + 1, se)

min(a, b) == IF a < b THEN a ELSE b

max(a, b) == IF a > b THEN a ELSE b

\* PersistDeals, lines 154-168: minOrderID after the loop over the first n deals
RECURSIVE MinOrderID(_, _)
MinOrderID(deals, n) ==
    IF n = 0 THEN 0
    ELSE LET prev == MinOrderID(deals, n - 1)
             deal == deals[n]
         IN IF prev = 0 THEN min(deal.bidOrderID, deal.askOrderID)
            ELSE min(min(deal.bidOrderID, deal.askOrderID), prev)

\* PersistDeals, lines 155-168: maxOrderID after the loop over the first n deals
RECURSIVE MaxOrderID(_, _)
MaxOrderID(deals, n) ==
    IF n = 0 THEN 0
    ELSE LET prev == MaxOrderID(deals, n - 1)
             deal == deals[n]
         IN IF prev = 0 THEN max(deal.bidOrderID, deal.askOrderID)
            ELSE max(max(deal.bidOrderID, deal.askOrderID), prev)

\* line 170: the columns of a deal that are stored
DealRow(deal) ==
    [bid_order_id |-> deal.bidOrderID,
     ask_order_id |-> deal.askOrderID,
     price        |-> deal.price,
     size         |-> deal.size,
     symbol       |-> deal.symbol]

\* lines 157-178: the rows the COPY of a chunk appends
CopyIn(rows, deals) == rows \o [i \in 1 .. Len(deals) |-> DealRow(deals[i])]

\* sum(d.size) over the first n rows with the given order id in column col
RECURSIVE SumSize(_, _, _, _)
SumSize(rows, n, col, id) ==
    IF n = 0 THEN 0
    ELSE SumSize(rows, n - 1, col, id)
         + (IF rows[n][col] = id THEN rows[n].size ELSE 0)

\* lines 188-192: the rows of cte, as pairs <<order_id, blocked_size>>.  The
\* faulty variant has lost the second half of the union.
Cte_BidsOnly(rows, lo, hi) ==
    {<<id, SumSize(rows, Len(rows), "bid_order_id", id)>> :
        id \in {x \in lo .. hi : \E i \in 1 .. Len(rows) : rows[i].bid_order_id = x}}

Cte(rows, lo, hi) ==
    {<<id, SumSize(rows, Len(rows), "bid_order_id", id)>> :
        id \in {x \in lo .. hi : \E i \in 1 .. Len(rows) : rows[i].bid_order_id = x}}
    \cup
    {<<id, SumSize(rows, Len(rows), "ask_order_id", id)>> :
        id \in {x \in lo .. hi : \E i \in 1 .. Len(rows) : rows[i].ask_order_id = x}}

\* lines 194-197: the values the UPDATE can give to blocked_size of the
\* orders row id.  A row joined by several cte rows is updated from one of
\* them, which one is not fixed; a row joined by none is left alone.
BlockedSizes(blk, cte, lo, hi, id) ==
    IF id >= lo /\ id <= hi /\ \E r \in cte : r[1] = id
    THEN {r[2] : r \in {q \in cte : q[1] = id}}
    ELSE {blk[id]}

\* the possible values of the column blocked_size on the rows 1 .. n
RECURSIVE BlockedUpTo(_, _, _, _, _)
BlockedUpTo(blk, cte, lo, hi, n) ==
    IF n = 0 THEN {<< >>}
    ELSE {Append(b, v) : b \in BlockedUpTo(blk, cte, lo, hi, n - 1),
                         v \in BlockedSizes(blk, cte, lo, hi, n)}

\* lines 194-197: the possible results of the UPDATE
BlockOrders(blk, rows, lo, hi) ==
    BlockedUpTo(blk, Cte(rows, lo, hi), lo, hi, Len(blk))

\* main, line 270: e.Persist(tx) after the feed loop
PersistStart ==
    /\ Running
    /\ pc' = [main |-> "persist",
              workers |-> [k \in 1 .. NChunks(e.curDealID) |-> "copy"]]
    /\ UNCHANGED <<e, fresh, OrdersFeed, lastCall, resets, fedBefore, dbDeals, blocked, mainLoop>>

\* a goroutine: PersistDeals up to the end of the COPY (lines 149-185)
WorkerCopy(k) ==
    /\ pc.main = "persist"
    /\ pc.workers[k] = "copy"
    /\ dbDeals' = CopyIn(dbDeals,
                         DealSlice(e, ChunkBegin(k), ChunkEnd(k, e.curDealID)))
    /\ pc' = [pc EXCEPT !.workers[k] = "update"]
    /\ UNCHANGED <<e, fresh, OrdersFeed, lastCall, resets, fedBefore, blocked, mainLoop>>

\* a goroutine: the UPDATE of blocked_size (lines 187-210), then wg.Done()
WorkerUpdate(k) ==
    /\ pc.main = "persist"
    /\ pc.workers[k] = "update"
    /\ LET deals == DealSlice(e, ChunkBegin(k), ChunkEnd(k, e.curDealID))
       IN blocked' \in BlockOrders(blocked, dbDeals,
                                   MinOrderID(deals, Len(deals)),
                                   MaxOrderID(deals, Len(deals)))
    /\ pc' = [pc EXCEPT !.workers[k] = "done"]
    /\ UNCHANGED <<e, fresh, OrdersFeed, lastCall, resets, fedBefore, dbDeals, mainLoop>>

\* wg.Wait() returns
PersistReturn ==
    /\ pc.main = "persist"
    /\ \A k \in DOMAIN pc.workers : pc.workers[k] = "done"
    /\ pc' = [pc EXCEPT !.main = "returned"]
    /\ UNCHANGED <<e, fresh, OrdersFeed, lastCall, resets, fedBefore, dbDeals, blocked, mainLoop>>

\* One round of the driver with its Persist.
NextPersist ==
    \/ DoLimit
    \/ DoCancel
    \/ PersistStart
    \/ \E k \in DOMAIN pc.workers : WorkerCopy(k)
    \/ \E k \in DOMAIN pc.workers : WorkerUpdate(k)
    \/ PersistReturn

SpecPersist == Init /\ [][NextPersist]_vars

\* feed: e.Limit(order), for a feed whose orders all name the price minPrice
FeedOneLevel ==
    /\ Running
    /\ Len(OrdersFeed) < MaxLogFeed
    /\ \E order \in {o \in Orders(Len(OrdersFeed) + 1) : o.price = minPrice} :
          LET r == Limit(e, order)
              f == Limit(fresh, order)
          IN
          /\ e' = r.e
          /\ fresh' = f.e
          /\ OrdersFeed' = Append(OrdersFeed, order)
          /\ lastCall' = [op |-> "Limit", arg |-> order.id, ret |-> r.ret,
                          freshRet |-> f.ret]
    /\ UNCHANGED <<resets, fedBefore, dbDeals, blocked, pc, mainLoop>>

\* One round of the driver over a longer feed at one price, with its Persist.
NextOneLevel ==
    \/ FeedOneLevel
    \/ PersistStart
    \/ \E k \in DOMAIN pc.workers : WorkerCopy(k)
    \/ \E k \in DOMAIN pc.workers : WorkerUpdate(k)
    \/ PersistReturn

SpecOneLevel == Init /\ [][NextOneLevel]_vars

----------------------------------------------------------------------------
(* main (db.go): one round.  FetchOrders returns the rows of the orders    *)
(* relation in ascending id order; the loop hands them to feed in batches  *)
(* of batchSize; feed passes every row whose price is not 0 to Limit; then *)
(* Persist is called.                                                      *)

\* the rows the orders relation can hold at the position id
FetchedRows(id) ==
    {o \in Orders(id) : o.price = minPrice} \cup {c \in Cancels(id) : c.size = 1}

\* the results of FetchOrders that have n rows: row i has the serial id i
FetchedOrders(n) ==
    {[i \in 1 .. n |-> [f[i] EXCEPT !.id = i]] : f \in [1 .. n -> FetchedRows(0)]}

\* main, line 258: OrdersFeed := FetchOrders(tx), and the loop's i := batchSize
MainFetch ==
    /\ mainLoop.at = "fetch"
    /\ \E n \in 0 .. MaxFetch : \E orders \in FetchedOrders(n) :
          mainLoop' = [at |-> "loop", Orders |-> orders, i |-> batchSize, k |-> 0]
    /\ UNCHANGED <<e, fresh, OrdersFeed, lastCall, resets, fedBefore, dbDeals, blocked, pc>>

\* main, lines 262-264: the test of the loop; feed(&e, i-batchSize, i, ...)
\* is called, or the loop is left
MainLoop ==
    /\ mainLoop.at = "loop"
    /\ mainLoop' = IF mainLoop.i < Len(mainLoop.Orders)
                   THEN [mainLoop EXCEPT !.at = "feed", !.k = mainLoop.i - batchSize]
                   ELSE [mainLoop EXCEPT !.at = "persist"]
    /\ UNCHANGED <<e, fresh, OrdersFeed, lastCall, resets, fedBefore, dbDeals, blocked, pc>>

\* feed, lines 305-310: one turn of the loop over Orders[begin:end]
MainFeed ==
    /\ mainLoop.at = "feed"
    /\ ~e.panicked
    /\ mainLoop.k < mainLoop.i
    /\ LET order == mainLoop.Orders[mainLoop.k + 1] IN
       IF order.price # 0
       THEN LET r == Limit(e, order)
                f == Limit(fresh, order)
            IN /\ e' = r.e
               /\ fresh' = f.e
               /\ OrdersFeed' = Append(OrdersFeed, order)
               /\ lastCall' = [op |-> "Limit", arg |-> order.id, ret |-> r.ret,
                               freshRet |-> f.ret]
       ELSE UNCHANGED <<e, fresh, OrdersFeed, lastCall>>
    /\ mainLoop' = [mainLoop EXCEPT !.k = @ + 1]
    /\ UNCHANGED <<resets, fedBefore, dbDeals, blocked, pc>>

\* feed returns; main, line 262: i += batchSize
MainFeedReturn ==
    /\ mainLoop.at = "feed"
    /\ ~e.panicked
    /\ mainLoop.k = mainLoop.i
    /\ mainLoop' = [mainLoop EXCEPT !.at = "loop", !.i = @ + batchSize]
    /\ UNCHANGED <<e, fresh, OrdersFeed, lastCall, resets, fedBefore, dbDeals, blocked, pc>>

\* main, line 270: e.Persist(tx)
MainPersist ==
    /\ mainLoop.at = "persist"
    /\ pc.main = "feed"
    /\ pc' = [main |-> "persist",
              workers |-> [k \in 1 .. NChunks(e.curDealID) |-> "copy"]]
    /\ mainLoop' = [mainLoop EXCEPT !.at = "persisted"]
    /\ UNCHANGED <<e, fresh, OrdersFeed, lastCall, resets, fedBefore, dbDeals, blocked>>

\* One round of main.
NextMain ==
    \/ MainFetch
    \/ MainLoop
    \/ MainFeed
    \/ MainFeedReturn
    \/ MainPersist
    \/ \E k \in DOMAIN pc.workers : WorkerCopy(k)
    \/ \E k \in DOMAIN pc.workers : WorkerUpdate(k)
    \/ PersistReturn

SpecMain == Init /\ [][NextMain]_vars

----------------------------------------------------------------------------
(* Reading the deal log against the feed.  Within a round the row with id  *)
(* i is OrdersFeed[i]; of the two orders a deal names, the one with the    *)
(* larger id arrived later and is the incoming (aggressive) order, the     *)
(* other is the resting (passive) one.                                     *)

Aggressor(d) == IF d.bidOrderID > d.askOrderID THEN d.bidOrderID ELSE d.askOrderID

Passive(d) == IF d.bidOrderID > d.askOrderID THEN d.askOrderID ELSE d.bidOrderID

Names(d, id) == d.bidOrderID = id \/ d.askOrderID = id

IsLimitRow(i) == i \in 1 .. Len(OrdersFeed) /\ OrdersFeed[i].price # 0

IsCancelRow(i) == i \in 1 .. Len(OrdersFeed) /\ OrdersFeed[i].price = 0

\* number of Limit calls made in this round
NLimit == Cardinality({i \in 1 .. Len(OrdersFeed) : IsLimitRow(i)})

\* total size of the first n deals of the log that name the order id
RECURSIVE Filled(_, _)
Filled(id, n) ==
    IF n = 0 THEN 0
    ELSE Filled(id, n - 1) + (IF Names(e.deals[n], id) THEN e.deals[n].size ELSE 0)

\* total size of the first n deals of the log of the engine E that name the
\* order id
RECURSIVE FilledIn(_, _, _)
FilledIn(E, id, n) ==
    IF n = 0 THEN 0
    ELSE FilledIn(E, id, n - 1) + (IF Names(E.deals[n], id) THEN E.deals[n].size ELSE 0)

\* the order id has rested: an arena node carries its id
Rested(id) == \E s \in Slots : e.bookEntries[s].id = id

SlotOf(id) == CHOOSE s \in Slots : e.bookEntries[s].id = id

\* a Cancel row after row id and before row t names the node of order id
CancelledBefore(id, t) ==
    \E c \in (id + 1) .. (t - 1) :
        IsCancelRow(c) /\ Rested(id) /\ OrdersFeed[c].size = SlotOf(id)

\* the arena slots linked from bookEntry on
RECURSIVE Chain(_, _)
Chain(E, bookEntry) ==
    IF bookEntry = Nil THEN {}
    ELSE {bookEntry} \cup Chain(E, E.bookEntries[bookEntry].next)

\* the nodes an incoming order would meet at the price levels it crosses
Crossed(E, order) ==
    IF order.side = Bid
    THEN UNION {Chain(E, E.pricePoints[p].listHead) :
                    p \in {q \in 0 .. maxPrice : E.askMin <= q /\ q <= order.price}}
    ELSE UNION {Chain(E, E.pricePoints[p].listHead) :
                    p \in {q \in 0 .. maxPrice : order.price <= q /\ q <= E.bidMax}}

----------------------------------------------------------------------------
(* C1. No crossed book: between engine calls, after any sequence of Limit  *)
(* calls (valid price, size > 0) and Cancel calls on a freshly reset       *)
(* engine, askMin > bidMax.                                                *)
NoCrossedBook == e.askMin > e.bidMax

\* a Limit call has just traded while bids and asks both rest
NoCrossedBook_Witness ==
    /\ lastCall.op = "Limit"
    /\ e.curDealID > 0
    /\ e.askMin <= maxPrice
    /\ e.bidMax >= minPrice

(* C2. Passive-price rule: every deal in the log carries the price of the  *)
(* price point at which its passive order rests, not the limit price of    *)
(* the incoming order.                                                     *)
PassivePriceRule ==
    \A j \in 1 .. e.curDealID :
        e.deals[j].price = OrdersFeed[Passive(e.deals[j])].price

(* C3. Price-time priority: if A rested before B on the same side at the   *)
(* same price, every deal in which B is the passive order comes after A    *)
(* has been filled for its whole size or has been cancelled.               *)
PriceTimePriority ==
    \A j \in 1 .. e.curDealID :
        LET B == Passive(e.deals[j])
            t == Aggressor(e.deals[j])
        IN \A A \in 1 .. (B - 1) :
              (/\ IsLimitRow(A)
               /\ Rested(A)
               /\ OrdersFeed[A].side = OrdersFeed[B].side
               /\ OrdersFeed[A].price = OrdersFeed[B].price)
              => \/ Filled(A, j - 1) = OrdersFeed[A].size
                 \/ CancelledBefore(A, t)

\* one incoming order consumed A entirely, then part of B, at one price
PriceTimePriority_Witness ==
    /\ e.curDealID = 2
    /\ LET d1 == e.deals[1]
           d2 == e.deals[2]
           A == Passive(d1)
           B == Passive(d2)
       IN /\ Aggressor(d1) = Aggressor(d2)
          /\ A < B
          /\ OrdersFeed[A].price = OrdersFeed[B].price
          /\ d1.size = OrdersFeed[A].size
          /\ Rested(B)
          /\ e.bookEntries[SlotOf(B)].size = OrdersFeed[B].size - d2.size
          /\ e.bookEntries[SlotOf(B)].size > 0

(* C4. Conservation of volume: for every order of the round, the sizes of  *)
(* the deals naming it add up to at most the size it was submitted with.   *)
ConservationOfVolume ==
    \A id \in 1 .. Len(OrdersFeed) :
        IsLimitRow(id) => Filled(id, e.curDealID) <= OrdersFeed[id].size

\* an order filled for its whole size by two deals
ConservationOfVolume_Witness ==
    \E id \in 1 .. Len(OrdersFeed) :
        /\ IsLimitRow(id)
        /\ Filled(id, e.curDealID) = OrdersFeed[id].size
        /\ Cardinality({j \in 1 .. e.curDealID : Names(e.deals[j], id)}) = 2

(* C5. Reset reinitialises the engine: after a Reset the deals emitted and *)
(* the sequence numbers returned are those of a never-used engine fed the  *)
(* same calls.                                                             *)
ResetReinitialises ==
    /\ DealLog(e) = DealLog(fresh)
    /\ lastCall.ret = lastCall.freshRet

(* C6. A cancelled order emits no further deals: once Cancel has been      *)
(* called with the sequence number of a resting order, no later Limit call *)
(* appends a deal naming that order; and a Limit call whose order meets    *)
(* only cancelled nodes at the prices it crosses appends no deal and, when *)
(* it returns, has rested its order whole at its limit price.              *)
NoDealAfterCancel ==
    \A c \in 1 .. Len(OrdersFeed) :
        IsCancelRow(c) =>
            LET X == e.bookEntries[OrdersFeed[c].size].id IN
            (X # 0 /\ X < c) =>
                \A j \in 1 .. e.curDealID :
                    Names(e.deals[j], X) => Aggressor(e.deals[j]) < c

MeetsOnlyCancelled ==
    (/\ lastCall'.op = "Limit"
     /\ Len(OrdersFeed') = Len(OrdersFeed) + 1
     /\ Crossed(e, OrdersFeed'[Len(OrdersFeed')]) # {}
     /\ \A s \in Crossed(e, OrdersFeed'[Len(OrdersFeed')]) : e.bookEntries[s].size = 0)
    => LET order == OrdersFeed'[Len(OrdersFeed')]
           ret == lastCall'.ret
       IN /\ e'.curDealID = e.curDealID
          /\ ret # Nil =>
                /\ e'.bookEntries[ret].size = order.size
                /\ e'.bookEntries[ret].id = order.id
                /\ e'.pricePoints[order.price].listHead = ret

CancelIdempotent ==
    [][/\ (/\ lastCall.op = "Cancel"
           /\ lastCall'.op = "Cancel"
           /\ lastCall'.arg = lastCall.arg) => e' = e
       /\ \A id \in Slots : Cancel(Cancel(e', id), id) = Cancel(e', id)]_vars

\* a resting order has been cancelled, then cancelled again
CancelIdempotent_Witness ==
    /\ Len(OrdersFeed) = 3
    /\ IsLimitRow(1)
    /\ IsCancelRow(2) /\ OrdersFeed[2].size = 1
    /\ IsCancelRow(3) /\ OrdersFeed[3].size = 1
    /\ e.bookEntries[1].id = 1
    /\ e.bookEntries[1].size = 0

(* C8. Limit returns the sequence counter after incrementing it by one:    *)
(* the k-th Limit call of a round returns k, whether or not the order was  *)
(* filled or rested, and Cancel leaves the counter alone.                  *)
SequenceReturned ==
    /\ (lastCall.op = "Limit" /\ lastCall.ret # Nil) => lastCall.ret = NLimit
    /\ ~e.panicked => e.curOrderID = NLimit

\* the second Limit call, made after a Cancel, was filled whole and returned 2
SequenceReturned_Witness ==
    /\ lastCall.op = "Limit"
    /\ lastCall.ret = 2
    /\ e.bookEntries[2].id = 0
    /\ e.curDealID = 1
    /\ \E c \in 1 .. Len(OrdersFeed) : IsCancelRow(c)

(* C9. The deal log is append-only and ordered by match time: the cursor   *)
(* never decreases, written entries never change, the deals of an earlier  *)
(* Limit call precede those of a later one, and the deals of one call are  *)
(* in traversal order: best price first, first rested first at a price.    *)
LogOrdered ==
    \A i \in 1 .. (e.curDealID - 1) :
        LET a == e.deals[i]
            b == e.deals[i + 1]
            pa == OrdersFeed[Passive(a)].price
            pb == OrdersFeed[Passive(b)].price
        IN /\ Aggressor(a) <= Aggressor(b)
           /\ Aggressor(a) = Aggressor(b) =>
                /\ OrdersFeed[Aggressor(a)].side = Bid => pa <= pb
                /\ OrdersFeed[Aggressor(a)].side = Ask => pa >= pb
                /\ pa = pb => Passive(a) < Passive(b)

\* C9: every step appends to the deal log, if it writes to it at all, and
\* leaves it in match order.
DealLogAppendOnly ==
    [][/\ e'.curDealID >= e.curDealID
       /\ \A i \in 1 .. e.curDealID : e'.deals[i] = e.deals[i]
       /\ LogOrdered']_vars

\* one incoming order traded at two price levels, after an earlier deal
DealLogAppendOnly_Witness ==
    /\ e.curDealID = 2
    /\ Aggressor(e.deals[1]) = Aggressor(e.deals[2])
    /\ OrdersFeed[Passive(e.deals[1])].price # OrdersFeed[Passive(e.deals[2])].price

(* C10. Persist round trip: when Persist returns, whatever the             *)
(* interleaving of its goroutines, the deals relation holds exactly the    *)
(* deals of the in-memory log (as a multiset), and every order named in a  *)
(* deal has blocked_size equal to the sum of the sizes of all its deals in *)
(* the whole log.                                                          *)
Occurrences(rows, r) == Cardinality({i \in 1 .. Len(rows) : rows[i] = r})

LogRows == [i \in 1 .. e.curDealID |-> DealRow(e.deals[i])]

\* C10: once Persist has returned, the deals relation is the deal log and
\* each blocked_size is the order's total over the whole log.
PersistRoundTrip ==
    pc.main = "returned" =>
        /\ Len(dbDeals) = Len(LogRows)
        /\ \A i \in 1 .. Len(LogRows) :
              Occurrences(dbDeals, LogRows[i]) = Occurrences(LogRows, LogRows[i])
        /\ \A id \in DOMAIN blocked :
              IF \E j \in 1 .. e.curDealID : Names(e.deals[j], id)
              THEN blocked[id] = Filled(id, e.curDealID)
              ELSE blocked[id] = Nil

\* Persist has returned after two goroutines stored deals of the same order
PersistRoundTrip_Witness ==
    /\ pc.main = "returned"
    /\ Len(pc.workers) = 2
    /\ \E id \in DOMAIN blocked :
          /\ \E i \in 1 .. batchPersistSize : Names(e.deals[i], id)
          /\ Names(e.deals[e.curDealID], id)
          /\ blocked[id] = Filled(id, e.curDealID)
          /\ blocked[id] > e.deals[e.curDealID].size

(* C11. Exact fill of a single pair: on a freshly reset engine, a Bid at   *)
(* price p of size s followed by an Ask at p of size s produces exactly    *)
(* one deal {price p, size s}, leaves no node reachable from any price     *)
(* point, and leaves askMin = maxPrice + 1 and bidMax = minPrice - 1.      *)
ExactFillScenario ==
    /\ Len(OrdersFeed) = 2
    /\ IsLimitRow(1) /\ OrdersFeed[1].side = Bid
    /\ IsLimitRow(2) /\ OrdersFeed[2].side = Ask
    /\ OrdersFeed[2].price = OrdersFeed[1].price
    /\ OrdersFeed[2].size = OrdersFeed[1].size

ExactFillOneDeal ==
    /\ e.curDealID = 1
    /\ e.deals[1].bidOrderID = 1
    /\ e.deals[1].askOrderID = 2
    /\ e.deals[1].price = OrdersFeed[1].price
    /\ e.deals[1].size = OrdersFeed[1].size

BookEmpty == \A p \in 0 .. maxPrice : e.pricePoints[p].listHead = Nil

TwoLevelSweepScenario ==
    /\ Len(OrdersFeed) = 3
    /\ IsLimitRow(1) /\ OrdersFeed[1].side = Ask /\ OrdersFeed[1].size = 1
    /\ IsLimitRow(2) /\ OrdersFeed[2].side = Ask /\ OrdersFeed[2].size = 1
    /\ OrdersFeed[1].price < OrdersFeed[2].price
    /\ IsLimitRow(3) /\ OrdersFeed[3].side = Bid /\ OrdersFeed[3].size = 2
    /\ OrdersFeed[3].price = OrdersFeed[2].price

DealLogWithinCapacity ==
    NLimit < maxNumOrders =>
        /\ e.curDealID <= maxNumDeals
        /\ e.fault # "deals"

(* C14. Price-point indexing stays in range: for every Limit call with a   *)
(* price in minPrice .. maxPrice and size > 0, every price point the scan  *)
(* reads or writes has an index in 0 .. maxPrice, also for a Bid at        *)
(* maxPrice that exhausts all asks and an Ask at minPrice that exhausts    *)
(* all bids.                                                               *)
PricePointIndexInRange ==
    /\ e.fault # "pricePoints"
    /\ e.bidMax >= 0

(* C15. Sides are separated by the scan pointers: between operations on an *)
(* engine fed from fresh, every node reachable from the head of the price  *)
(* point at p with size > 0 is a resting Bid with p <= bidMax or a resting *)
(* Ask with p >= askMin; so askMin is a lower bound on the cheapest live   *)
(* ask, bidMax an upper bound on the dearest live bid, and no price point  *)
(* holds live orders of both sides.                                        *)
LiveAt(p) == {s \in Chain(e, e.pricePoints[p].listHead) : e.bookEntries[s].size > 0}

SideOf(s) == OrdersFeed[e.bookEntries[s].id].side

SidesSeparated ==
    \A p \in 0 .. maxPrice :
        /\ \A s \in LiveAt(p) :
              /\ IsLimitRow(e.bookEntries[s].id)
              /\ OrdersFeed[e.bookEntries[s].id].price = p
              /\ \/ SideOf(s) = Bid /\ p <= e.bidMax
                 \/ SideOf(s) = Ask /\ p >= e.askMin
        /\ \A s, t \in LiveAt(p) : SideOf(s) = SideOf(t)

\* after a trade, a live ask rests above askMin, which points at a price
\* point with no live order
SidesSeparated_Witness ==
    /\ e.curDealID > 0
    /\ e.askMin <= maxPrice
    /\ LiveAt(e.askMin) = {}
    /\ \E p \in Prices : \E s \in LiveAt(p) : SideOf(s) = Ask /\ p > e.askMin

(* C16. Scan-pointer monotonicity: while an incoming Bid is processed      *)
(* askMin never decreases and bidMax changes only by being raised to the   *)
(* Bid's price when its residual rests; while an incoming Ask is processed *)
(* bidMax never increases and askMin changes only by being lowered to the  *)
(* Ask's price when its residual rests; Cancel changes neither pointer.    *)
RestedBy(E, ret, order) ==
    /\ ret # Nil
    /\ E.bookEntries[ret].id = order.id
    /\ E.bookEntries[ret].size > 0
    /\ E.pricePoints[order.price].listTail = ret

\* the pointers after the scan of the Bid, before its residual rests
BidScanMonotone(order) ==
    order.price >= e.askMin =>
        LET s == BidScan(e, order, order.size, e.pricePoints[e.askMin].listHead)
        IN /\ s.e.askMin >= e.askMin
           /\ s.e.askMin <= e'.askMin
           /\ s.e.bidMax = e.bidMax

\* the pointers after the scan of the Ask, before its residual rests
AskScanMonotone(order) ==
    order.price <= e.bidMax =>
        LET s == AskScan(e, order, order.size, e.pricePoints[e.bidMax].listHead)
        IN /\ s.e.bidMax <= e.bidMax
           /\ s.e.bidMax >= e'.bidMax
           /\ s.e.askMin = e.askMin

\* C16: a Limit call moves the pointer of the opposite side only forward
\* and its own side's pointer only to its price when it rests; a Cancel
\* call moves neither.
ScanPointersMonotone ==
    [][OrdersFeed' # OrdersFeed =>
         LET order == OrdersFeed'[Len(OrdersFeed')] IN
         /\ (lastCall'.op = "Limit" /\ order.side = Bid) =>
               /\ e'.askMin >= e.askMin
               /\ BidScanMonotone(order)
               /\ \/ e'.bidMax = e.bidMax
                  \/ /\ e'.bidMax = order.price
                     /\ e'.bidMax > e.bidMax
                     /\ RestedBy(e', lastCall'.ret, order)
         /\ (lastCall'.op = "Limit" /\ order.side = Ask) =>
               /\ e'.bidMax <= e.bidMax
               /\ AskScanMonotone(order)
               /\ \/ e'.askMin = e.askMin
                  \/ /\ e'.askMin = order.price
                     /\ e'.askMin < e.askMin
                     /\ RestedBy(e', lastCall'.ret, order)
         /\ lastCall'.op = "Cancel" =>
               /\ e'.askMin = e.askMin
               /\ e'.bidMax = e.bidMax]_vars

\* a Bid has moved askMin up two levels and, resting its residual, raised
\* bidMax to its price
ScanPointersMonotone_Witness ==
    /\ Len(OrdersFeed) = 2
    /\ IsLimitRow(1) /\ OrdersFeed[1].side = Ask
    /\ IsLimitRow(2) /\ OrdersFeed[2].side = Bid
    /\ e.askMin = OrdersFeed[1].price + 2
    /\ e.bidMax = OrdersFeed[2].price
    /\ e.curDealID = 1
    /\ RestedBy(e, lastCall.ret, OrdersFeed[2])

(* C17. A fully filled incoming order leaves no trace on its own side:     *)
(* when an incoming Bid (Ask) is filled whole by crossing, no arena node   *)
(* is written for it, nothing is appended to the price point at its limit  *)
(* price, and bidMax (askMin) is unchanged; a node is allocated and        *)
(* appended only when a residual size > 0 remains after the scan.          *)
NoNodeWrittenFor(order) ==
    /\ \A s \in Slots :
          /\ e'.bookEntries[s].id = e.bookEntries[s].id
          /\ e'.bookEntries[s].id # order.id
          /\ e'.bookEntries[s].trader = e.bookEntries[s].trader
          /\ e'.bookEntries[s].next = e.bookEntries[s].next
    /\ e'.bookEntries[e'.curOrderID] = e.bookEntries[e'.curOrderID]
    /\ e'.pricePoints[order.price].listTail = e.pricePoints[order.price].listTail
    /\ \A s \in Chain(e', e'.pricePoints[order.price].listHead) :
          s \in Chain(e, e.pricePoints[order.price].listHead)

\* C17: a Limit call whose order is filled whole writes nothing for it and
\* leaves its own side's pointer; any other Limit call that returns has
\* rested the residual, of size > 0, at the tail of its price point.
FilledLeavesNoTrace ==
    [][(OrdersFeed' # OrdersFeed /\ lastCall'.op = "Limit" /\ lastCall'.ret # Nil) =>
         LET order == OrdersFeed'[Len(OrdersFeed')]
             got == FilledIn(e', order.id, e'.curDealID)
         IN IF got = order.size
            THEN /\ NoNodeWrittenFor(order)
                 /\ order.side = Bid => e'.bidMax = e.bidMax
                 /\ order.side = Ask => e'.askMin = e.askMin
            ELSE /\ RestedBy(e', lastCall'.ret, order)
                 /\ e'.bookEntries[lastCall'.ret].size = order.size - got
                 /\ e'.bookEntries[lastCall'.ret].next = Nil]_vars

\* a Bid above bidMax has been filled whole by two resting asks
FilledLeavesNoTrace_Witness ==
    /\ Len(OrdersFeed) = 3
    /\ IsLimitRow(3) /\ OrdersFeed[3].side = Bid
    /\ lastCall.ret = 3
    /\ e.curDealID = 2
    /\ Filled(3, 2) = OrdersFeed[3].size
    /\ e.bookEntries[3] = ZeroEntry
    /\ e.bidMax < OrdersFeed[3].price

(* C18. Cancel is a single write: Cancel(seq) sets the size of arena node  *)
(* seq to 0 and leaves everything else unchanged: every other node, that   *)
(* node's next link, trader and id, every price point's head and tail,     *)
(* askMin, bidMax, the sequence counter and the deal log.                  *)
CancelSingleWrite ==
    [][(OrdersFeed' # OrdersFeed /\ lastCall'.op = "Cancel") =>
         LET seq == lastCall'.arg IN
         /\ e'.bookEntries[seq].size = 0
         /\ e'.bookEntries[seq].next = e.bookEntries[seq].next
         /\ e'.bookEntries[seq].trader = e.bookEntries[seq].trader
         /\ e'.bookEntries[seq].id = e.bookEntries[seq].id
         /\ \A s \in Slots \ {seq} : e'.bookEntries[s] = e.bookEntries[s]
         /\ e'.pricePoints = e.pricePoints
         /\ e'.askMin = e.askMin
         /\ e'.bidMax = e.bidMax
         /\ e'.curOrderID = e.curOrderID
         /\ e'.deals = e.deals
         /\ e'.curDealID = e.curDealID]_vars

\* the first of two nodes linked at one price has been cancelled: it is
\* still the head and still linked to the second
CancelSingleWrite_Witness ==
    /\ lastCall.op = "Cancel"
    /\ lastCall.arg = 1
    /\ e.bookEntries[1].id = 1
    /\ e.bookEntries[1].size = 0
    /\ e.bookEntries[1].next = 2
    /\ e.bookEntries[2].size > 0
    /\ e.pricePoints[OrdersFeed[1].price].listHead = 1

(* C19. Resting-node accounting: the size of every arena node that has not *)
(* been cancelled equals the size it was rested with minus the sizes of    *)
(* the deals in which it was the passive order; so a node matched for      *)
(* exactly its remaining size, or consumed whole by a larger incoming      *)
(* order, ends with size 0.                                                *)
CancelledNode(s) ==
    \E c \in (e.bookEntries[s].id + 1) .. Len(OrdersFeed) :
        IsCancelRow(c) /\ OrdersFeed[c].size = s

\* the deals that name an order before it rests are those it made as the
\* incoming order, so the size it rested with is its size less those, and
\* what is left of it is its size less all the deals that name it
RestingNodeAccounting ==
    \A s \in Slots :
        LET id == e.bookEntries[s].id IN
        (id # 0 /\ ~CancelledNode(s)) =>
            e.bookEntries[s].size = OrdersFeed[id].size - Filled(id, e.curDealID)

(* C20. Persist partitions the deal log: for every deal count n >= 0 the   *)
(* chunks handed to the workers are contiguous index ranges of at most     *)
(* batchPersistSize deals each, pairwise disjoint, in log order, and       *)
(* together cover exactly the indices 0 .. n-1, so every deal is persisted *)
(* by exactly one worker; with n = 0 no worker is started.                 *)
ChunkOf(k) == ChunkBegin(k) .. (ChunkEnd(k, e.curDealID) - 1)

\* the deals handed to the workers 1 .. k, in the order of the workers
RECURSIVE HandedOut(_)
HandedOut(k) ==
    IF k = 0 THEN << >>
    ELSE HandedOut(k - 1) \o DealSlice(e, ChunkBegin(k), ChunkEnd(k, e.curDealID))

PersistPartitionsLog ==
    pc.main # "feed" =>
        LET n == e.curDealID
            W == DOMAIN pc.workers
        IN /\ n = 0 => W = {}
           /\ \A k \in W :
                 /\ 0 <= ChunkBegin(k)
                 /\ ChunkBegin(k) < ChunkEnd(k, n)
                 /\ ChunkEnd(k, n) <= n
                 /\ ChunkEnd(k, n) - ChunkBegin(k) <= batchPersistSize
                 /\ k + 1 \in W => ChunkBegin(k + 1) = ChunkEnd(k, n)
           /\ \A j, k \in W : j # k => ChunkOf(j) \cap ChunkOf(k) = {}
           /\ \A i \in 0 .. n - 1 : \E k \in W : i \in ChunkOf(k)
           /\ HandedOut(Len(pc.workers)) = DealLog(e)

\* Persist has returned after a full chunk and a shorter last chunk
PersistPartitionsLog_Witness ==
    /\ pc.main = "returned"
    /\ Len(pc.workers) = 2
    /\ ChunkOf(1) = 0 .. batchPersistSize - 1
    /\ ChunkOf(2) = batchPersistSize .. e.curDealID - 1
    /\ ChunkEnd(2, e.curDealID) < ChunkBegin(2) + batchPersistSize
    /\ Len(dbDeals) = e.curDealID

(* C21. The driver submits the whole input: for every fetched order        *)
(* sequence, every record has been passed to the engine exactly once, in   *)
(* ascending arrival order, when Persist is called, a record with price 0  *)
(* as a cancellation and any other to Limit; the final batch and a         *)
(* remainder shorter than the batch included.                              *)
DriverSubmitsAll ==
    mainLoop.at = "persisted" =>
        /\ Len(OrdersFeed) = Len(mainLoop.Orders)
        /\ \A i \in 1 .. Len(OrdersFeed) : OrdersFeed[i] = mainLoop.Orders[i]

----------------------------------------------------------------------------
\* the n-th deal completes the incoming order: the deals up to it fill the
\* aggressor's whole size
DealCompletes(n) ==
    LET id == Aggressor(e.deals[n]) IN Filled(id, n) = OrdersFeed[id].size

\* the n-th deal fully consumes the resting order: the deals up to it fill
\* the passive order's whole size
DealConsumes(n) ==
    LET id == Passive(e.deals[n]) IN Filled(id, n) = OrdersFeed[id].size

(* C22. In a run from a fresh engine the number of deals in the deal log   *)
(* never exceeds the number of Limit calls made so far: every deal either  *)
(* completes the incoming order or fully consumes one resting order, and   *)
(* no later deal names a resting order that a deal has consumed.           *)
DealsBoundedByLimitCalls ==
    /\ e.curDealID <= NLimit
    /\ \A n \in 1 .. e.curDealID : DealCompletes(n) \/ DealConsumes(n)
    /\ \A n \in 1 .. e.curDealID : \A m \in (n + 1) .. e.curDealID :
          DealConsumes(n) => ~Names(e.deals[m], Passive(e.deals[n]))

\* one incoming order consumed a resting order without being completed and
\* traded again: the log holds one deal less than there were Limit calls
DealsBoundedByLimitCalls_Witness ==
    /\ e.curDealID >= 2
    /\ e.curDealID = NLimit - 1
    /\ \E n \in 1 .. e.curDealID : DealConsumes(n) /\ ~DealCompletes(n)

----------------------------------------------------------------------------
\* the arena slots met from bookEntry on by following next, at most n of them
RECURSIVE Walk(_, _, _)
Walk(E, bookEntry, n) ==
    IF bookEntry = Nil \/ n = 0 THEN << >>
    ELSE <<bookEntry>> \o Walk(E, E.bookEntries[bookEntry].next, n - 1)

\* the list of the price point p, walked one step further than the arena
\* has slots
ListOf(E, p) == Walk(E, E.pricePoints[p].listHead, maxNumOrders + 1)

\* the walk ends at nil and meets no slot twice
Acyclic(w) ==
    /\ Len(w) <= maxNumOrders
    /\ \A i, j \in 1 .. Len(w) : w[i] = w[j] => i = j

\* the node in slot s rests unconsumed: it carries an order, it was not
\* cancelled and the deals have not filled the whole of its order
Unconsumed(s) ==
    LET be == e.bookEntries[s] IN
    /\ be.id # 0
    /\ be.size > 0
    /\ Filled(be.id, e.curDealID) < OrdersFeed[be.id].size

(* C23. FIFO list integrity: in every state reachable from a fresh engine, *)
(* for every price point whose head is not nil the tail is reachable from  *)
(* the head by next links, the tail's next is nil and the chain is         *)
(* acyclic; and every order that rested and is not yet consumed or         *)
(* cancelled is reachable from the head of the price point of its price.   *)
ListIntegrity ==
    /\ \A p \in DOMAIN e.pricePoints :
          e.pricePoints[p].listHead # Nil =>
              LET w == ListOf(e, p) IN
              /\ Acyclic(w)
              /\ \E i \in 1 .. Len(w) : w[i] = e.pricePoints[p].listTail
              /\ e.bookEntries[e.pricePoints[p].listTail].next = Nil
    /\ \A s \in Slots :
          Unconsumed(s) =>
              LET w == ListOf(e, OrdersFeed[e.bookEntries[s].id].price) IN
              \E i \in 1 .. Len(w) : w[i] = s

\* two orders rest at one price, behind each other, and a deal has filled
\* a part of the first
ListIntegrity_Witness ==
    \E p \in DOMAIN e.pricePoints :
        LET w == ListOf(e, p) IN
        /\ Len(w) >= 2
        /\ w[Len(w)] = e.pricePoints[p].listTail
        /\ Unconsumed(w[1]) /\ Unconsumed(w[2])
        /\ Filled(e.bookEntries[w[1]].id, e.curDealID) > 0

============================================================================
